---- MODULE Spec2Model ----
(***************************************************************************)
(* Model of bdk's keychain changeset algebra (crates/chain/src/keychain.rs)*)
(* and of the synchronization round of example_electrum (main.rs).         *)
(*                                                                         *)
(* Three specifications share the module's variables:                      *)
(*   SpecSeq    a sequence of ChangeSet::append calls into an empty        *)
(*              keychain ChangeSet;                                        *)
(*   SpecMerge  ChangeSet::append applied to inputs A, B, C drawn by Init; *)
(*   SpecRounds synchronization rounds of main() running on threads that   *)
(*              share the chain, graph and db mutexes.                     *)
(***************************************************************************)
EXTENDS Integers, Sequences, FiniteSets, TLC

\* ------------------------------------------------------------------ bounds
MaxIndex == 2
MaxAppends == 3

\* ------------------------------------------------------- keychain ChangeSet
\* The keychain identifiers K of the model (the test's enum Keychain).
Keychains == {"One", "Two"}

\* Derivation indices (u32) within the bound.
Indices == 0..MaxIndex

\* ChangeSet<K>(BTreeMap<K, u32>): a map from some keychains to an index.
ChangeSets == UNION {[D -> Indices] : D \in SUBSET Keychains}

\* ChangeSet::default(): the empty map.
EmptyChangeSet == [k \in {} |-> 0]

\* u32::max, as used in `other_index.max(*index)`; a mutant that accumulates,
\* and one that keeps the smaller index.
MaxU32Sum(x, y) == x + y

MaxU32Min(x, y) == IF x >= y THEN y ELSE x

MaxU32(x, y) == IF x >= y THEN x ELSE y

\* BTreeMap::remove applied for every key of ks.
RemoveKeys(m, ks) == [k \in (DOMAIN m) \ ks |-> m[k]]

\* BTreeMap::append: moves every entry of other into self; an entry of other
\* replaces the entry of self with the same key.
BTreeMapAppend(self, other) ==
  [k \in (DOMAIN self) \cup (DOMAIN other) |->
     IF k \in DOMAIN other THEN other[k] ELSE self[k]]

\* Mutants of ChangeSet::append: one forgets the max loop (so BTreeMap::append
\* overwrites), one forgets to adopt the keychains that only other has, one
\* keeps the keychains that both have only, one keeps self's index for a
\* keychain that both have.
ChangeSetAppendOverwrite(self, other) == BTreeMapAppend(self, other)

ChangeSetAppendNoAdopt(self, other) ==
  [k \in DOMAIN self |->
     IF k \in DOMAIN other THEN MaxU32(other[k], self[k]) ELSE self[k]]

ChangeSetAppendCommonKeys(self, other) ==
  [k \in (DOMAIN self) \cap (DOMAIN other) |-> MaxU32(other[k], self[k])]

ChangeSetAppendSelfWins(self, other) ==
  BTreeMapAppend(self, RemoveKeys(other, DOMAIN self))

\* ChangeSet::append: the iter_mut loop takes the max for the keys of self and
\* removes them from other, then BTreeMap::append moves what is left of other.
ChangeSetAppend(self, other) ==
  LET updated == [k \in DOMAIN self |->
                    IF k \in DOMAIN other THEN MaxU32(other[k], self[k])
                                          ELSE self[k]]
      rest == RemoveKeys(other, DOMAIN self)
  IN  BTreeMapAppend(updated, rest)

\* ChangeSet::is_empty
ChangeSetIsEmpty(self) == DOMAIN self = {}

\* The maps of test::append_keychain_derivation_indices.
lhs_di == [k \in {"One", "Two", "Three"} |->
             IF k = "One" THEN 7 ELSE IF k = "Two" THEN 0 ELSE 3]

rhs_di == [k \in {"One", "Two", "Four"} |->
             IF k = "One" THEN 3 ELSE IF k = "Two" THEN 5 ELSE 4]

\* Largest element of a non-empty set of naturals.
SetMax(S) == CHOOSE x \in S : \A y \in S : y <= x

VARIABLES
  \* SpecSeq
  acc,          \* the ChangeSet appended into
  prevAcc,      \* its value before the latest append
  contributed,  \* per keychain, the indices contributed so far
  nAppends,     \* number of appends made
  \* SpecMerge
  csA, csB, csC,   \* the input changesets
  mstep,           \* number of append rounds made (0..2)
  mAB, mAC, mAA,   \* A.append(B), A.append(C), A.append(A.clone())
  mABC, mACB, mABB, \* (A.append(B)).append(C), (A.append(C)).append(B), ...append(B)
  mAE, mEA,        \* A.append(empty), empty.append(A)
  mBA, mBC, mA_BC, \* B.append(A), B.append(C), A.append(B.append(C))
  iA, iB,          \* the index C after apply_changeset(A), after apply_changeset(B)
  iAB, iBA, iM,    \* ... after A then B, after B then A, after A.append(B)
  \* SpecRounds: the shared stores of main()
  chain,        \* LocalChain behind the chain mutex
  revealed,     \* last revealed index per keychain (graph.index)
  graph,        \* transactions of the IndexedTxGraph behind the graph mutex
  staged,       \* changeset staged in db and not yet committed
  durable,      \* changeset committed to the db file
  held,         \* per round, the mutexes it holds, in acquisition order
  \* SpecRounds: the locals of each round
  pc,           \* position of the round in main()
  cmd,          \* ElectrumCommands variant of the round
  update,       \* response / final_update
  missing,      \* missing_txids
  db_changeset, \* the chain and indexed_tx_graph changesets of the round
  result,       \* how the round ended
  \* SpecRounds: history
  wrote,        \* the round changed a store or the db
  applied,      \* the commit steps the round made, in order
  lastApplied,  \* the update applied by the latest commit section
  handed,       \* per round, the changeset it moved into db.stage
  persistLog,   \* the rounds that staged, in the order they staged
  nDurable,     \* how many entries of persistLog a commit has written
  \* SpecSync: the planning block of one targeted sync
  syncFlags,    \* unused_spks, all_spks, utxos, unconfirmed as the caller gave them
  syncEff,      \* the same variables as the block goes on
  wallet,       \* what the index, the graph and the chain answer
  syncSnap,     \* wallet as it was when both guards were taken
  spks, outpoints, txids, tip,  \* the streams and the tip for the chain source
  syncHeld,     \* the guards of the block, in acquisition order
  syncPc,       \* position in the block
  \* SpecWallet: WalletChangeSet operations on inputs drawn by Init
  wA, wB,       \* the input WalletChangeSets
  wstep,        \* 0 before the operations, 1 after
  wAEmpty,      \* wA.is_empty()
  wAB,          \* wA.append(wB)
  wFromChain, wFromIndexed,  \* wA.chain.into(), wA.indexed_tx_graph.into()
  \* SpecBalance: Balance methods on a balance drawn by Init
  balance,      \* the Balance
  build,        \* whether the build checks overflow
  total,        \* <<>> or the outcome of total()
  trusted_spendable  \* <<>> or the outcome of trusted_spendable()

seqVars == <<acc, prevAcc, contributed, nAppends>>
mergeVars == <<csA, csB, csC, mstep, mAB, mAC, mAA, mABC, mACB, mABB,
               mAE, mEA, mBA, mBC, mA_BC, iA, iB, iAB, iBA, iM>>
syncVars == <<syncFlags, syncEff, wallet, syncSnap, spks, outpoints, txids, tip,
              syncHeld, syncPc>>
wcsVars == <<wA, wB, wstep, wAEmpty, wAB, wFromChain, wFromIndexed>>
balVars == <<balance, build, total, trusted_spendable>>
pureVars == <<syncVars, wcsVars, balVars>>
stores == <<chain, revealed, graph, staged, durable>>
persistVars == <<handed, persistLog, nDurable>>
roundVars == <<stores, held, pc, cmd, update, missing, db_changeset, result,
               wrote, applied, lastApplied, persistVars>>
vars == <<seqVars, mergeVars, roundVars, pureVars>>

\* ------------------------------------------------------ stores of main()
MaxTarget == 1

\* Threads that each run one synchronization round of main().
Rounds == {"r1", "r2"}

\* ElectrumCommands
Commands == {"Scan", "Sync"}

\* Block heights above genesis and block hashes of the model.
Heights == {1}
Hashes == {"a", "b"}
Genesis == "g"

\* Transactions the chain source can report.
Txs == {"tx1", "tx2"}

\* local_chain::ChangeSet, and the checkpoints of a LocalChain above genesis:
\* a map from some heights to a hash.
ChainMaps == UNION {[D -> Hashes] : D \in SUBSET Heights}
EmptyChain == [h \in {} |-> "a"]

\* local_chain::Update: the chain of checkpoints of the new tip, down to the
\* genesis it builds on.
ChainUpdates == [genesis : {Genesis}, blocks : ChainMaps]
                  \cup [genesis : {"x"}, blocks : ChainMaps \ {EmptyChain}]

\* The keychains of the wallet (example_cli::Keychain): a wallet without a
\* change descriptor has the external keychain only.
WalletKeychains == {"External"}

\* last_active_indices / keychain_update.
Targets == UNION {[D -> 0..MaxTarget] : D \in SUBSET WalletKeychains}

\* ElectrumUpdate / WalletUpdate: chain tip, graph and last active indices.
Updates == [chain : ChainUpdates, graph : SUBSET Txs, last_active_indices : Targets]

\* WalletUpdate::new with an empty chain update: the value of a round's
\* update before the chain source answered.
NoUpdate == [chain |-> [genesis |-> Genesis, blocks |-> EmptyChain],
             graph |-> {}, last_active_indices |-> EmptyChangeSet]

\* indexed_tx_graph::ChangeSet::default()
EmptyIndexed == [graph |-> {}, indexer |-> EmptyChangeSet]

\* WalletChangeSet::default()
EmptyWalletChangeSet == [chain |-> EmptyChain, indexed_tx_graph |-> EmptyIndexed]

\* local_chain::ChangeSet::append: the later entry for a height wins.
ChainChangeSetAppend(self, other) == BTreeMapAppend(self, other)

\* indexed_tx_graph::ChangeSet::append: graph additions are united, indexer
\* changesets are merged with ChangeSet::append.
IndexedAppend(self, other) ==
  [graph |-> self.graph \cup other.graph,
   indexer |-> ChangeSetAppend(self.indexer, other.indexer)]

\* indexed_tx_graph::ChangeSet::is_empty
IndexedIsEmpty(self) == self.graph = {} /\ ChangeSetIsEmpty(self.indexer)

\* A mutant of append that merges the indexed_tx_graph field only.
WalletChangeSetAppendKeepChain(self, other) ==
  [chain |-> self.chain,
   indexed_tx_graph |-> IndexedAppend(self.indexed_tx_graph, other.indexed_tx_graph)]

\* WalletChangeSet::append
WalletChangeSetAppend(self, other) ==
  [chain |-> ChainChangeSetAppend(self.chain, other.chain),
   indexed_tx_graph |-> IndexedAppend(self.indexed_tx_graph, other.indexed_tx_graph)]

\* A mutant of is_empty that is satisfied by one empty field.
WalletChangeSetIsEmptyAny(self) ==
  self.chain = EmptyChain \/ IndexedIsEmpty(self.indexed_tx_graph)

\* WalletChangeSet::is_empty
WalletChangeSetIsEmpty(self) ==
  self.chain = EmptyChain /\ IndexedIsEmpty(self.indexed_tx_graph)

\* LocalChain::apply_update: rejected when the update's genesis is not the
\* local one; otherwise the changeset holds the checkpoints that differ from
\* the local chain, and the chain takes them.
ChainApplyUpdate(c, u) ==
  LET changed == {h \in DOMAIN u.blocks : h \notin DOMAIN c \/ c[h] # u.blocks[h]}
      changeset == [h \in changed |-> u.blocks[h]]
  IN  [ok |-> u.genesis = Genesis,
       changeset |-> changeset,
       chain |-> BTreeMapAppend(c, changeset)]

\* KeychainTxOutIndex::reveal_to_target_multi: a keychain of the targets is
\* revealed up to its target when that is beyond what is revealed; the
\* changeset holds the keychains whose revealed index rose.
RevealToTargetMulti(rev, targets) ==
  LET risen == {k \in DOMAIN targets : k \notin DOMAIN rev \/ targets[k] > rev[k]}
      changeset == [k \in risen |-> targets[k]]
  IN  [changeset |-> changeset, revealed |-> ChangeSetAppend(rev, changeset)]

\* KeychainTxOutIndex::apply_changeset: reveals every keychain of the
\* changeset up to its index.
ApplyChangeSet(rev, cs) == RevealToTargetMulti(rev, cs).revealed

\* IndexedTxGraph::apply_update: the changeset holds what was newly inserted.
GraphApplyUpdate(g, u) == [changeset |-> u \ g, graph |-> g \cup u]

\* ElectrumUpdate::missing_full_txs: the transactions of the response whose
\* body the graph does not have.
MissingFullTxs(response, g) == response.graph \ g

\* Set of the elements of a sequence.
Range(s) == {s[i] : i \in DOMAIN s}

\* A std::sync::Mutex is free when no round holds its guard.
LockFree(l) == \A r \in Rounds : l \notin Range(held[r])

\* ----------------------------------------------------------- SpecRounds
algVars == <<seqVars, mergeVars, pureVars>>

\* Positions of main() at which the round waits for the chain source.
NetworkPcs == {"scan_query", "sync_query", "finalize"}

\* Positions of the commit section at which both guards are alive.
AtomicPcs == {"apply_chain", "reveal", "apply_graph", "compose"}

\* Positions before the commit section, where a caller may give a round up.
AbandonPcs == {"scan_lock_graph", "scan_lock_chain", "scan_plan", "scan_query",
               "sync_lock_graph", "sync_lock_chain", "sync_plan", "sync_query",
               "missing_lock", "missing", "finalize"}

\* Ways a round ends without a commit section that succeeded.
Failures == {"NetworkError", "FetchError", "ReorgError", "Abandoned"}

\* The statements of the commit section, in program order; mutants that
\* reveal before the chain update, and that apply the graph before revealing.
CommitOrderRevealFirst == <<"reveal", "apply_chain", "apply_graph">>

CommitOrderGraphFirst == <<"apply_chain", "apply_graph", "reveal">>

CommitOrder == <<"apply_chain", "reveal", "apply_graph">>

\* The statement after statement p of the commit section.
AfterCommitStep(p) ==
  LET i == CHOOSE j \in 1..Len(CommitOrder) : CommitOrder[j] = p
  IN  IF i = Len(CommitOrder) THEN "compose" ELSE CommitOrder[i + 1]

\* The state after construction: empty db, stores built from the empty
\* init_changeset, no guard alive, every round at the start of its command.
RoundsStart(c) ==
  /\ chain = EmptyChain
  /\ revealed = EmptyChangeSet
  /\ graph = {}
  /\ staged = EmptyWalletChangeSet
  /\ durable = EmptyWalletChangeSet
  /\ held = [r \in Rounds |-> <<>>]
  /\ cmd = c
  /\ pc = [r \in Rounds |-> IF c[r] = "Scan" THEN "scan_lock_graph"
                                              ELSE "sync_lock_graph"]
  /\ update = [r \in Rounds |-> NoUpdate]
  /\ missing = [r \in Rounds |-> {}]
  /\ db_changeset = [r \in Rounds |-> EmptyWalletChangeSet]
  /\ result = [r \in Rounds |-> "Running"]
  /\ wrote = [r \in Rounds |-> FALSE]
  /\ applied = [r \in Rounds |-> <<>>]
  /\ lastApplied = {}
  /\ handed = [r \in Rounds |-> EmptyWalletChangeSet]
  /\ persistLog = <<>>
  /\ nDurable = 0

\* Rounds as the other specifications keep them: never started.
RoundsInit == RoundsStart([r \in Rounds |-> "Scan"])

\* History: round r changed a store or the db in this step.
Touch(r) == wrote' = [wrote EXCEPT ![r] = @ \/ (stores' # stores)]

\* Mutex::lock at position from: blocks until the mutex is free.
MutexLock(r, from, l, to) ==
  /\ pc[r] = from
  /\ LockFree(l)
  /\ held' = [held EXCEPT ![r] = Append(@, l)]
  /\ pc' = [pc EXCEPT ![r] = to]
  /\ UNCHANGED <<stores, cmd, update, missing, db_changeset, result,
                 wrote, applied, lastApplied, algVars, persistVars>>

\* A round returns from main() with res; its guards and its locals are
\* dropped.
Return(r, res) ==
  /\ pc' = [pc EXCEPT ![r] = "done"]
  /\ result' = [result EXCEPT ![r] = res]
  /\ held' = [held EXCEPT ![r] = <<>>]
  /\ update' = [update EXCEPT ![r] = NoUpdate]
  /\ missing' = [missing EXCEPT ![r] = {}]
  /\ db_changeset' = [db_changeset EXCEPT ![r] = EmptyWalletChangeSet]

\* Scan: `let graph = &*graph.lock().unwrap();`
ScanLockGraph(r) ==
  /\ cmd[r] = "Scan"
  /\ MutexLock(r, "scan_lock_graph", "graph", "scan_lock_chain")

\* Scan: `let chain = &*chain.lock().unwrap();`
ScanLockChain(r) ==
  /\ cmd[r] = "Scan"
  /\ MutexLock(r, "scan_lock_chain", "chain", "scan_plan")

\* The rest of a planning block; heldAfter is what the round holds after it.
PlanWith(r, from, to, heldAfter) ==
  /\ pc[r] = from
  /\ held' = [held EXCEPT ![r] = heldAfter]
  /\ pc' = [pc EXCEPT ![r] = to]
  /\ UNCHANGED <<stores, cmd, update, missing, db_changeset, result,
                 wrote, applied, lastApplied, algVars, persistVars>>

\* Scan: keychain_spks and tip are read; both guards die with the block.
ScanPlan(r) ==
  /\ cmd[r] = "Scan"
  /\ PlanWith(r, "scan_plan", "scan_query", <<>>)

\* The chain source answers with a preliminary update.
QueryOk(r, from, targets) ==
  /\ pc[r] = from
  /\ \E u \in Updates :
       /\ u.last_active_indices \in targets
       /\ update' = [update EXCEPT ![r] = u]
  /\ pc' = [pc EXCEPT ![r] = "missing_lock"]
  /\ UNCHANGED <<stores, held, cmd, missing, db_changeset, result,
                 wrote, applied, lastApplied, algVars, persistVars>>

\* The query fails: `.context("scanning the blockchain")?`
QueryErr(r, from) ==
  /\ pc[r] = from
  /\ Return(r, "NetworkError")
  /\ UNCHANGED <<stores, cmd,
                 wrote, applied, lastApplied, algVars, persistVars>>

\* Scan: client.scan(..) returns the update with its keychain_update.
ScanQueryOk(r) ==
  /\ cmd[r] = "Scan"
  /\ QueryOk(r, "scan_query", Targets)

ScanQueryErr(r) ==
  /\ cmd[r] = "Scan"
  /\ QueryErr(r, "scan_query")

\* Sync: `let graph = graph.lock().unwrap();`
SyncLockGraph(r) ==
  /\ cmd[r] = "Sync"
  /\ MutexLock(r, "sync_lock_graph", "graph", "sync_lock_chain")

\* Sync: `let chain = chain.lock().unwrap();`
SyncLockChain(r) ==
  /\ cmd[r] = "Sync"
  /\ MutexLock(r, "sync_lock_chain", "chain", "sync_plan")

\* Sync: a mutant that forgets `drop((graph, chain))`.
SyncPlanKeepGuards(r) ==
  /\ cmd[r] = "Sync"
  /\ PlanWith(r, "sync_plan", "sync_query", held[r])

\* Sync: spks, outpoints, txids and tip are read, then drop((graph, chain)).
SyncPlan(r) ==
  /\ cmd[r] = "Sync"
  /\ PlanWith(r, "sync_plan", "sync_query", <<>>)

\* A mutant in which the sync update carries keychain indices.
SyncQueryOkKeychains(r) ==
  /\ cmd[r] = "Sync"
  /\ QueryOk(r, "sync_query", Targets)

\* Sync: client.scan_without_keychain(..); keychain_update is BTreeMap::new().
SyncQueryOk(r) ==
  /\ cmd[r] = "Sync"
  /\ QueryOk(r, "sync_query", {EmptyChangeSet})

SyncQueryErr(r) ==
  /\ cmd[r] = "Sync"
  /\ QueryErr(r, "sync_query")

\* `let graph = &*graph.lock().unwrap();` of the missing_txids block.
MissingLock(r) ==
  /\ pc[r] = "missing_lock"
  /\ MutexLock(r, "missing_lock", "graph", "missing")

\* The missing_txids block, with the graph it leaves behind.
MissingWith(r, graphAfter) ==
  /\ pc[r] = "missing"
  /\ missing' = [missing EXCEPT ![r] = MissingFullTxs(update[r], graph)]
  /\ graph' = graphAfter
  /\ held' = [held EXCEPT ![r] = <<>>]
  /\ pc' = [pc EXCEPT ![r] = "finalize"]
  /\ UNCHANGED <<chain, revealed, staged, durable, cmd, update, db_changeset,
                 result, applied, lastApplied, algVars, persistVars>>
  /\ Touch(r)

\* A mutant that inserts the response's graph while it looks for the
\* missing transactions.
MissingTxidsInsert(r) ==
  /\ pc[r] = "missing"
  /\ MissingWith(r, graph \cup update[r].graph)

\* response.missing_full_txs(graph.graph()); the guard dies with the block.
MissingTxids(r) ==
  /\ pc[r] = "missing"
  /\ MissingWith(r, graph)

\* response.finalize(..) fetched the missing transactions.
FinalizeOk(r) ==
  /\ pc[r] = "finalize"
  /\ pc' = [pc EXCEPT ![r] = "commit_lock_chain"]
  /\ UNCHANGED <<stores, held, cmd, update, missing, db_changeset, result,
                 wrote, applied, lastApplied, algVars, persistVars>>

\* response.finalize(..)? fails to fetch one of the missing transactions.
FinalizeErr(r) ==
  /\ pc[r] = "finalize"
  /\ missing[r] # {}
  /\ Return(r, "FetchError")
  /\ UNCHANGED <<stores, cmd,
                 wrote, applied, lastApplied, algVars, persistVars>>

\* `let mut chain = chain.lock().unwrap();`
CommitLockChain(r) ==
  /\ pc[r] = "commit_lock_chain"
  /\ MutexLock(r, "commit_lock_chain", "chain", "commit_lock_graph")

\* `let mut graph = graph.lock().unwrap();`
CommitLockGraph(r) ==
  /\ pc[r] = "commit_lock_graph"
  /\ MutexLock(r, "commit_lock_graph", "graph", CommitOrder[1])

\* chain.apply_update(final_update.chain) accepted the update; heldAfter is
\* what the round holds after the statement.
ApplyChainUpdateWith(r, heldAfter) ==
  LET res == ChainApplyUpdate(chain, update[r].chain)
  IN  /\ pc[r] = "apply_chain"
      /\ res.ok
      /\ chain' = res.chain
      /\ db_changeset' = [db_changeset EXCEPT ![r].chain = res.changeset]
      /\ applied' = [applied EXCEPT ![r] = Append(@, "chain")]
      /\ held' = [held EXCEPT ![r] = heldAfter]
      /\ pc' = [pc EXCEPT ![r] = AfterCommitStep("apply_chain")]
      /\ UNCHANGED <<revealed, graph, staged, durable, cmd, update, missing,
                     result, lastApplied, algVars, persistVars>>
      /\ Touch(r)

\* A mutant whose guards are temporaries that die with the statement.
ApplyChainUpdateTempGuards(r) ==
  /\ pc[r] = "apply_chain"
  /\ ApplyChainUpdateWith(r, <<>>)

\* `let chain = chain.apply_update(final_update.chain)?;` the guards live on.
ApplyChainUpdate(r) ==
  /\ pc[r] = "apply_chain"
  /\ ApplyChainUpdateWith(r, held[r])

\* chain.apply_update(..)? rejects the update: main returns the error.
ApplyChainUpdateErr(r) ==
  /\ pc[r] = "apply_chain"
  /\ ~ChainApplyUpdate(chain, update[r].chain).ok
  /\ Return(r, "ReorgError")
  /\ UNCHANGED <<stores, cmd,
                 applied, lastApplied, algVars, persistVars>>
  /\ Touch(r)

\* The indexer changeset put into the round's changeset: a mutant that
\* records the targets, and the code, which records what reveal returned.
RevealIndexerTargets(res, targets) == targets

RevealIndexer(res, targets) == res.changeset

\* graph.index.reveal_to_target_multi(&final_update.last_active_indices) and
\* changeset.append(ChangeSet { indexer, ..Default::default() }).
RevealToTarget(r) ==
  /\ pc[r] = "reveal"
  /\ LET res == RevealToTargetMulti(revealed, update[r].last_active_indices)
         indexer == RevealIndexer(res, update[r].last_active_indices)
     IN
      /\ revealed' = res.revealed
      /\ db_changeset' = [db_changeset EXCEPT ![r].indexed_tx_graph =
                            IndexedAppend(@, [graph |-> {}, indexer |-> indexer])]
      /\ applied' = [applied EXCEPT ![r] = Append(@, "index")]
      /\ pc' = [pc EXCEPT ![r] = AfterCommitStep("reveal")]
      /\ UNCHANGED <<chain, graph, staged, durable, held, cmd, update, missing,
                     result, lastApplied, algVars, persistVars>>
      /\ Touch(r)

\* changeset.append(graph.apply_update(final_update.graph))
ApplyGraphUpdate(r) ==
  /\ pc[r] = "apply_graph"
  /\ LET res == GraphApplyUpdate(graph, update[r].graph)
     IN
      /\ graph' = res.graph
      /\ db_changeset' = [db_changeset EXCEPT ![r].indexed_tx_graph =
                            IndexedAppend(@, [graph |-> res.changeset,
                                              indexer |-> EmptyChangeSet])]
      /\ applied' = [applied EXCEPT ![r] = Append(@, "graph")]
      /\ pc' = [pc EXCEPT ![r] = AfterCommitStep("apply_graph")]
      /\ UNCHANGED <<chain, revealed, staged, durable, held, cmd, update,
                     missing, result, lastApplied, algVars, persistVars>>
      /\ Touch(r)

\* `ChangeSet { indexed_tx_graph, chain }` ends the block: db_changeset is
\* bound and both guards die.
Compose(r) ==
  /\ pc[r] = "compose"
  /\ held' = [held EXCEPT ![r] = <<>>]
  /\ lastApplied' = {update[r]}
  /\ pc' = [pc EXCEPT ![r] = "db_lock"]
  /\ UNCHANGED <<stores, cmd, update, missing, db_changeset, result,
                 wrote, applied, algVars, persistVars>>

\* `let mut db = db.lock().unwrap();`
DbLock(r) ==
  /\ pc[r] = "db_lock"
  /\ MutexLock(r, "db_lock", "db", "stage")

\* From<local_chain::ChangeSet> for WalletChangeSet
WalletFromChain(c) == [chain |-> c, indexed_tx_graph |-> EmptyIndexed]

\* From<indexed_tx_graph::ChangeSet> for WalletChangeSet
WalletFromIndexed(i) == [chain |-> EmptyChain, indexed_tx_graph |-> i]

\* db.stage(cs) at main.rs:301: cs is appended into the staged changeset.
StageWith(r, cs) ==
  /\ staged' = WalletChangeSetAppend(staged, cs)
  /\ applied' = [applied EXCEPT ![r] = Append(@, "stage")]
  /\ handed' = [handed EXCEPT ![r] = db_changeset[r]]
  /\ persistLog' = Append(persistLog, r)
  /\ pc' = [pc EXCEPT ![r] = "db_commit"]
  /\ UNCHANGED <<chain, revealed, graph, durable, held, cmd, update, missing,
                 db_changeset, result, lastApplied, algVars, nDurable>>
  /\ Touch(r)

\* A mutant that stages the chain changeset of the round only.
StageChainOnly(r) ==
  /\ pc[r] = "stage"
  /\ StageWith(r, WalletFromChain(db_changeset[r].chain))

\* db.stage(db_changeset)
Stage(r) ==
  /\ pc[r] = "stage"
  /\ StageWith(r, db_changeset[r])

\* db.commit() writes what is staged; Ok(()) ends main.
DbCommit(r) ==
  /\ pc[r] = "db_commit"
  /\ durable' = WalletChangeSetAppend(durable, staged)
  /\ staged' = EmptyWalletChangeSet
  /\ applied' = [applied EXCEPT ![r] = Append(@, "commit")]
  /\ nDurable' = Len(persistLog)
  /\ Return(r, "Ok")
  /\ UNCHANGED <<chain, revealed, graph, cmd, lastApplied, algVars,
                 handed, persistLog>>
  /\ Touch(r)

\* db.commit()? fails: nothing is written and what was staged stays staged.
DbCommitErr(r) ==
  /\ pc[r] = "db_commit"
  /\ Return(r, "CommitError")
  /\ UNCHANGED <<stores, cmd,
                 wrote, applied, lastApplied, algVars, persistVars>>

\* The caller gives the round up before the commit section.
Abandon(r) ==
  /\ pc[r] \in AbandonPcs
  /\ Return(r, "Abandoned")
  /\ UNCHANGED <<stores, cmd,
                 wrote, applied, lastApplied, algVars, persistVars>>


\* ------------------------------------- SpecSync, SpecWallet, SpecBalance
MaxAmount == 7

\* The flags of ElectrumCommands::Sync.
SyncFlagSets == [unused_spks : BOOLEAN, all_spks : BOOLEAN,
                 utxos : BOOLEAN, unconfirmed : BOOLEAN]

\* Script pubkeys the index has derived, and outpoints it tracks.
WalletSpks == {"spk0", "spk1"}
WalletOutpoints == {"op1"}
WalletTxids == {"tx1"}

\* What a planning block can read: index.all_spks(), index.unused_spks(..),
\* filter_chain_unspents(chain, chain_tip, index.outpoints()), the txids of
\* list_chain_txs(chain, chain_tip) that are not confirmed, and chain.tip().
WalletStates == [all_spks : {WalletSpks}, unused_spks : SUBSET WalletSpks,
                 unspent : SUBSET WalletOutpoints,
                 unconfirmed : SUBSET WalletTxids,
                 tip : ChainMaps]

\* Mutants of the flag defaulting: one forgets `utxos = true`, one lets
\* unused_spks stand when all_spks is set.
EffectiveFlagsNoUtxos(f) ==
  IF ~(f.all_spks \/ f.unused_spks \/ f.utxos \/ f.unconfirmed)
    THEN [f EXCEPT !.unused_spks = TRUE, !.unconfirmed = TRUE]
    ELSE IF f.all_spks THEN [f EXCEPT !.unused_spks = FALSE] ELSE f

\* main.rs:168-174: the values of unused_spks, all_spks, utxos, unconfirmed
\* after the if / else if.
EffectiveFlags(f) ==
  IF ~(f.all_spks \/ f.unused_spks \/ f.utxos \/ f.unconfirmed)
    THEN [f EXCEPT !.unused_spks = TRUE, !.unconfirmed = TRUE, !.utxos = TRUE]
    ELSE IF f.all_spks THEN [f EXCEPT !.unused_spks = FALSE] ELSE f

\* main.rs:176-205: the spks stream.
SpkStream(f, w) ==
  (IF f.all_spks THEN w.all_spks ELSE {})
    \cup (IF f.unused_spks THEN w.unused_spks ELSE {})

\* A mutant that builds the outpoint stream under the unconfirmed flag.
OutpointStreamWrongFlag(f, w) == IF f.unconfirmed THEN w.unspent ELSE {}

\* main.rs:207-229: the outpoints stream.
OutpointStream(f, w) == IF f.utxos THEN w.unspent ELSE {}

\* main.rs:231-244: the txids stream.
TxidStream(f, w) == IF f.unconfirmed THEN w.unconfirmed ELSE {}

NoFlags == [unused_spks |-> FALSE, all_spks |-> FALSE,
            utxos |-> FALSE, unconfirmed |-> FALSE]

EmptyWallet == [all_spks |-> WalletSpks, unused_spks |-> {}, unspent |-> {},
                unconfirmed |-> {}, tip |-> EmptyChain]

\* The planning block before it starts, for the flags f and the wallet w.
SyncStart(f, w) ==
  /\ syncFlags = f /\ syncEff = f
  /\ wallet = w /\ syncSnap = EmptyWallet
  /\ spks = {} /\ outpoints = {} /\ txids = {} /\ tip = EmptyChain
  /\ syncHeld = <<>>
  /\ syncPc = "lock_graph"

SyncIdle == SyncStart(NoFlags, EmptyWallet)

\* WalletChangeSet values of the model.
WalletChangeSets ==
  [chain : ChainMaps,
   indexed_tx_graph : [graph : SUBSET Txs, indexer : ChangeSets]]

\* No WalletChangeSet operation made yet.
WcsResultsInit ==
  /\ wstep = 0
  /\ wAEmpty = FALSE
  /\ wAB = EmptyWalletChangeSet
  /\ wFromChain = EmptyWalletChangeSet
  /\ wFromIndexed = EmptyWalletChangeSet

WcsIdle == wA = EmptyWalletChangeSet /\ wB = EmptyWalletChangeSet /\ WcsResultsInit

\* Amounts of a Balance; MaxAmount stands for u64::MAX.
Amounts == 0..MaxAmount

\* Balance
Balances == [immature : Amounts, trusted_pending : Amounts,
             untrusted_pending : Amounts, confirmed : Amounts]

\* Whether the build checks arithmetic overflow (debug) or wraps (release).
Builds == {"debug", "release"}

\* A u64 value that was computed without a panic.
Value(x) == [panicked |-> FALSE, value |-> x]

\* u64 `+`: an overflow panics in a build that checks it and wraps otherwise;
\* after a panic nothing more is computed.
AddU64(a, y, b) ==
  IF a.panicked THEN a
  ELSE IF a.value + y > MaxAmount
         THEN IF b = "debug" THEN [panicked |-> TRUE, value |-> 0]
                             ELSE Value((a.value + y) % (MaxAmount + 1))
         ELSE Value(a.value + y)

\* Balance::total
BalanceTotal(bal, b) ==
  AddU64(AddU64(AddU64(Value(bal.confirmed), bal.trusted_pending, b),
                bal.untrusted_pending, b),
         bal.immature, b)

\* Balance::trusted_spendable
BalanceTrustedSpendable(bal, b) ==
  AddU64(Value(bal.confirmed), bal.trusted_pending, b)

BalStart(bal, b) ==
  /\ balance = bal /\ build = b
  /\ total = <<>> /\ trusted_spendable = <<>>

BalIdle == BalStart([immature |-> 0, trusted_pending |-> 0,
                     untrusted_pending |-> 0, confirmed |-> 0], "debug")

PureIdle == SyncIdle /\ WcsIdle /\ BalIdle

\* ------------------------------------------------------------- SpecSeq
SeqInit ==
  /\ acc = EmptyChangeSet
  /\ prevAcc = EmptyChangeSet
  /\ contributed = [k \in Keychains |-> {}]
  /\ nAppends = 0

\* No append made yet: every result is still the default ChangeSet.
MergeResultsInit ==
  /\ mstep = 0
  /\ mAB = EmptyChangeSet /\ mAC = EmptyChangeSet /\ mAA = EmptyChangeSet
  /\ mABC = EmptyChangeSet /\ mACB = EmptyChangeSet /\ mABB = EmptyChangeSet
  /\ mAE = EmptyChangeSet /\ mEA = EmptyChangeSet
  /\ mBA = EmptyChangeSet /\ mBC = EmptyChangeSet /\ mA_BC = EmptyChangeSet
  /\ iA = EmptyChangeSet /\ iB = EmptyChangeSet
  /\ iAB = EmptyChangeSet /\ iBA = EmptyChangeSet /\ iM = EmptyChangeSet

MergeIdle ==
  /\ csA = EmptyChangeSet /\ csB = EmptyChangeSet /\ csC = EmptyChangeSet
  /\ MergeResultsInit

\* self.append(other) for some changeset other.
AppendStep ==
  /\ nAppends < MaxAppends
  /\ \E other \in ChangeSets :
       /\ acc' = ChangeSetAppend(acc, other)
       /\ contributed' = [k \in Keychains |->
                            IF k \in DOMAIN other
                              THEN contributed[k] \cup {other[k]}
                              ELSE contributed[k]]
  /\ prevAcc' = acc
  /\ nAppends' = nAppends + 1
  /\ UNCHANGED <<mergeVars, roundVars, pureVars>>

InitSeq == SeqInit /\ MergeIdle /\ RoundsInit /\ PureIdle
NextSeq == AppendStep
SpecSeq == InitSeq /\ [][NextSeq]_vars

\* ------------------------------------------------------------ SpecMerge
MergeInit ==
  /\ \/ /\ csA \in ChangeSets /\ csB \in ChangeSets /\ csC \in ChangeSets
     \/ /\ csA = lhs_di /\ csB = rhs_di /\ csC = EmptyChangeSet
  /\ MergeResultsInit

\* First append into (a clone of) A.
FirstAppend ==
  /\ mstep = 0
  /\ mAB' = ChangeSetAppend(csA, csB)
  /\ mAC' = ChangeSetAppend(csA, csC)
  /\ mAA' = ChangeSetAppend(csA, csA)
  /\ mAE' = ChangeSetAppend(csA, EmptyChangeSet)
  /\ mEA' = ChangeSetAppend(EmptyChangeSet, csA)
  /\ mBA' = ChangeSetAppend(csB, csA)
  /\ mBC' = ChangeSetAppend(csB, csC)
  /\ iA' = ApplyChangeSet(csC, csA)
  /\ iB' = ApplyChangeSet(csC, csB)
  /\ mstep' = 1
  /\ UNCHANGED <<csA, csB, csC, mABC, mACB, mABB, mA_BC, iAB, iBA, iM,
                 seqVars, roundVars, pureVars>>

\* Second append into the results of the first.
SecondAppend ==
  /\ mstep = 1
  /\ mABC' = ChangeSetAppend(mAB, csC)
  /\ mACB' = ChangeSetAppend(mAC, csB)
  /\ mABB' = ChangeSetAppend(mAB, csB)
  /\ mA_BC' = ChangeSetAppend(csA, mBC)
  /\ iAB' = ApplyChangeSet(iA, csB)
  /\ iBA' = ApplyChangeSet(iB, csA)
  /\ iM' = ApplyChangeSet(csC, mAB)
  /\ mstep' = 2
  /\ UNCHANGED <<csA, csB, csC, mAB, mAC, mAA, mAE, mEA, mBA, mBC, iA, iB,
                 seqVars, roundVars, pureVars>>

InitMerge == MergeInit /\ SeqInit /\ RoundsInit /\ PureIdle
NextMerge == FirstAppend \/ SecondAppend
SpecMerge == InitMerge /\ [][NextMerge]_vars

\* The rounds of main() on the threads of Rounds.
\* The commands of the two threads, up to exchanging the threads.
CommandChoices == {c \in [Rounds -> Commands] : ~(c["r1"] = "Sync" /\ c["r2"] = "Scan")}

InitRounds ==
  /\ \E c \in CommandChoices : RoundsStart(c)
  /\ SeqInit /\ MergeIdle /\ PureIdle

\* The next statement of round r.
CodeStep(r) ==
  \/ ScanLockGraph(r) \/ ScanLockChain(r) \/ ScanPlan(r)
  \/ ScanQueryOk(r) \/ ScanQueryErr(r)
  \/ SyncLockGraph(r) \/ SyncLockChain(r) \/ SyncPlan(r)
  \/ SyncQueryOk(r) \/ SyncQueryErr(r)
  \/ MissingLock(r) \/ MissingTxids(r)
  \/ FinalizeOk(r) \/ FinalizeErr(r)
  \/ CommitLockChain(r) \/ CommitLockGraph(r)
  \/ ApplyChainUpdate(r) \/ ApplyChainUpdateErr(r)
  \/ RevealToTarget(r) \/ ApplyGraphUpdate(r) \/ Compose(r)
  \/ DbLock(r) \/ Stage(r) \/ DbCommit(r) \/ DbCommitErr(r)

NextRounds == \E r \in Rounds : CodeStep(r) \/ Abandon(r)

SpecRounds == InitRounds /\ [][NextRounds]_vars

\* The rounds when every thread that can execute its next statement does so
\* in the end: a free mutex is taken, a network call returns, a guard holder
\* goes on. Nothing promises that a caller gives a round up.
SpecRoundsFair ==
  InitRounds /\ [][NextRounds]_vars /\ \A r \in Rounds : WF_vars(CodeStep(r))

\* ------------------------------------------------------------- SpecSync
\* One targeted sync plans its queries while other rounds may commit.
notSync == <<seqVars, mergeVars, roundVars, wcsVars, balVars>>

InitSync ==
  /\ \E f \in SyncFlagSets, w \in WalletStates : SyncStart(f, w)
  /\ SeqInit /\ MergeIdle /\ RoundsInit /\ WcsIdle /\ BalIdle

\* main.rs:164 `let graph = graph.lock().unwrap();`
PlanLockGraph ==
  /\ syncPc = "lock_graph"
  /\ syncHeld' = Append(syncHeld, "graph")
  /\ syncPc' = "lock_chain"
  /\ UNCHANGED <<syncFlags, syncEff, wallet, syncSnap, spks, outpoints, txids,
                 tip, notSync>>

\* main.rs:165-166: the chain guard and chain_tip; from here on the block
\* reads the stores as they are now.
PlanLockChain ==
  /\ syncPc = "lock_chain"
  /\ syncHeld' = Append(syncHeld, "chain")
  /\ syncSnap' = wallet
  /\ syncPc' = "flags"
  /\ UNCHANGED <<syncFlags, syncEff, wallet, spks, outpoints, txids, tip,
                 notSync>>

\* main.rs:168-174
PlanFlags ==
  /\ syncPc = "flags"
  /\ syncEff' = EffectiveFlags(syncEff)
  /\ syncPc' = "spks"
  /\ UNCHANGED <<syncFlags, wallet, syncSnap, spks, outpoints, txids, tip,
                 syncHeld, notSync>>

\* main.rs:176-205: both branches collect into a Vec under the guards.
PlanSpks ==
  /\ syncPc = "spks"
  /\ spks' = SpkStream(syncEff, wallet)
  /\ syncPc' = "outpoints"
  /\ UNCHANGED <<syncFlags, syncEff, wallet, syncSnap, outpoints, txids, tip,
                 syncHeld, notSync>>

\* main.rs:207-229
PlanOutpoints ==
  /\ syncPc = "outpoints"
  /\ outpoints' = OutpointStream(syncEff, wallet)
  /\ syncPc' = "txids"
  /\ UNCHANGED <<syncFlags, syncEff, wallet, syncSnap, spks, txids, tip,
                 syncHeld, notSync>>

\* main.rs:231-244
PlanTxids ==
  /\ syncPc = "txids"
  /\ txids' = TxidStream(syncEff, wallet)
  /\ syncPc' = "tip"
  /\ UNCHANGED <<syncFlags, syncEff, wallet, syncSnap, spks, outpoints, tip,
                 syncHeld, notSync>>

\* main.rs:246-249 `let tip = chain.tip(); drop((graph, chain));`
PlanTipDrop ==
  /\ syncPc = "tip"
  /\ tip' = wallet.tip
  /\ syncHeld' = <<>>
  /\ syncPc' = "query"
  /\ UNCHANGED <<syncFlags, syncEff, wallet, syncSnap, spks, outpoints, txids,
                 notSync>>

\* main.rs:251-253 scan_without_keychain(tip, spks, txids, outpoints, ..)
PlanScan ==
  /\ syncPc = "query"
  /\ syncPc' = "done"
  /\ UNCHANGED <<syncFlags, syncEff, wallet, syncSnap, spks, outpoints, txids,
                 tip, syncHeld, notSync>>

\* main.rs:275-290: the commit section of another round changes what the
\* stores answer, one answer at a time here; it holds the chain and the graph
\* guard, so it runs only while this block holds neither.
OtherCommit ==
  /\ syncHeld = <<>>
  /\ syncPc # "done"
  /\ wallet' \in
       ({[wallet EXCEPT !.unused_spks = u] : u \in SUBSET WalletSpks}
          \cup {[wallet EXCEPT !.unspent = o] : o \in SUBSET WalletOutpoints}
          \cup {[wallet EXCEPT !.unconfirmed = t] : t \in SUBSET WalletTxids}
          \cup {[wallet EXCEPT !.tip = c] : c \in ChainMaps}) \ {wallet}
  /\ UNCHANGED <<syncFlags, syncEff, syncSnap, spks, outpoints, txids, tip,
                 syncHeld, syncPc, notSync>>

NextSync ==
  \/ PlanLockGraph \/ PlanLockChain \/ PlanFlags \/ PlanSpks \/ PlanOutpoints
  \/ PlanTxids \/ PlanTipDrop \/ PlanScan \/ OtherCommit

SpecSync == InitSync /\ [][NextSync]_vars

\* ----------------------------------------------------------- SpecWallet
\* The WalletChangeSet operations, on every pair of WalletChangeSets.
notWallet == <<seqVars, mergeVars, roundVars, syncVars, balVars>>

InitWallet ==
  /\ wA \in WalletChangeSets /\ wB \in WalletChangeSets
  /\ WcsResultsInit
  /\ SeqInit /\ MergeIdle /\ RoundsInit /\ SyncIdle /\ BalIdle

\* wA.is_empty()
IsEmptyCall ==
  /\ wstep = 0
  /\ wAEmpty' = WalletChangeSetIsEmpty(wA)
  /\ wstep' = 1
  /\ UNCHANGED <<wA, wB, wAB, wFromChain, wFromIndexed, notWallet>>

\* a clone of wA, then .append(wB)
AppendCall ==
  /\ wstep = 1
  /\ wAB' = WalletChangeSetAppend(wA, wB)
  /\ wstep' = 2
  /\ UNCHANGED <<wA, wB, wAEmpty, wFromChain, wFromIndexed, notWallet>>

\* WalletChangeSet::from(wA.chain)
FromChainCall ==
  /\ wstep = 2
  /\ wFromChain' = WalletFromChain(wA.chain)
  /\ wstep' = 3
  /\ UNCHANGED <<wA, wB, wAEmpty, wAB, wFromIndexed, notWallet>>

\* WalletChangeSet::from(wA.indexed_tx_graph)
FromIndexedCall ==
  /\ wstep = 3
  /\ wFromIndexed' = WalletFromIndexed(wA.indexed_tx_graph)
  /\ wstep' = 4
  /\ UNCHANGED <<wA, wB, wAEmpty, wAB, wFromChain, notWallet>>

NextWallet == IsEmptyCall \/ AppendCall \/ FromChainCall \/ FromIndexedCall

SpecWallet == InitWallet /\ [][NextWallet]_vars

\* ---------------------------------------------------------- SpecBalance
\* The Balance methods, on every Balance and in both builds.
notBalance == <<seqVars, mergeVars, roundVars, syncVars, wcsVars>>

InitBalance ==
  /\ \E bal \in Balances, b \in Builds : BalStart(bal, b)
  /\ SeqInit /\ MergeIdle /\ RoundsInit /\ SyncIdle /\ WcsIdle

\* balance.total()
TotalCall ==
  /\ total = <<>>
  /\ total' = <<BalanceTotal(balance, build)>>
  /\ UNCHANGED <<balance, build, trusted_spendable, notBalance>>

\* balance.trusted_spendable()
TrustedSpendableCall ==
  /\ trusted_spendable = <<>>
  /\ trusted_spendable' = <<BalanceTrustedSpendable(balance, build)>>
  /\ UNCHANGED <<balance, build, total, notBalance>>

NextBalance == TotalCall \/ TrustedSpendableCall

SpecBalance == InitBalance /\ [][NextBalance]_vars

\* ---------------------------------------------------------------- claims

\* C1: after any sequence of appends into an initially empty ChangeSet, the
\* value stored for a keychain is the maximum of the indices contributed for
\* it (and the keychain is absent when nothing was contributed), and no
\* stored value decreased in the latest append.
C1_MaxOfContributed ==
  /\ DOMAIN acc = {k \in Keychains : contributed[k] # {}}
  /\ \A k \in DOMAIN acc : acc[k] = SetMax(contributed[k])
  /\ \A k \in DOMAIN prevAcc : k \in DOMAIN acc /\ acc[k] >= prevAcc[k]

\* C1 witness: the bound of appends was made, a keychain got two different
\* indices, and the latest append left every stored value as it was.
C1_Witness ==
  /\ nAppends = MaxAppends
  /\ \E k \in DOMAIN acc : Cardinality(contributed[k]) >= 2 /\ acc[k] = MaxIndex
  /\ prevAcc = acc

\* C2: after self.append(other) the keys are the union of both key sets; a
\* key in both has the max, a key only in other has other's value, a key only
\* in self keeps its value; the test's maps give {One:7,Two:5,Three:3,Four:4}.
C2_AppendResult ==
  mstep >= 1 =>
    /\ DOMAIN mAB = (DOMAIN csA) \cup (DOMAIN csB)
    /\ \A k \in DOMAIN mAB :
         mAB[k] = IF k \in DOMAIN csA /\ k \in DOMAIN csB
                    THEN (IF csA[k] >= csB[k] THEN csA[k] ELSE csB[k])
                    ELSE IF k \in DOMAIN csB THEN csB[k] ELSE csA[k]
    /\ (csA = lhs_di /\ csB = rhs_di) =>
         mAB = [k \in {"One", "Two", "Three", "Four"} |->
                  IF k = "One" THEN 7 ELSE IF k = "Two" THEN 5
                  ELSE IF k = "Three" THEN 3 ELSE 4]

\* C2 witness: the test's scenario has been appended.
C2_Witness ==
  /\ mstep >= 1 /\ csA = lhs_di /\ csB = rhs_di
  /\ mAB["Two"] = 5 /\ mAB["One"] = 7

\* C3: appending B then C into A gives the same changeset as appending C
\* then B into A.
C3_OrderIndependent == mstep = 2 => mABC = mACB

\* C3 witness: B and C disagree with each other and with A on a shared key.
C3_Witness ==
  /\ mstep = 2
  /\ \E k \in (DOMAIN csA) \cap (DOMAIN csB) \cap (DOMAIN csC) :
       csA[k] < csB[k] /\ csB[k] < csC[k] /\ mABC[k] = csC[k]
  /\ DOMAIN csB # DOMAIN csC

\* C4: appending B a second time leaves A.append(B) unchanged, and appending
\* a clone of A into A leaves A unchanged.
C4_Idempotent ==
  /\ mstep = 2 => mABB = mAB
  /\ mstep >= 1 => mAA = csA

\* C4 witness: B raised an index of A and brought a new keychain, and was
\* appended twice.
C4_Witness ==
  /\ mstep = 2
  /\ \E k \in (DOMAIN csA) \cap (DOMAIN csB) : csA[k] < csB[k] /\ csB[k] > 0
  /\ (DOMAIN csB) \ (DOMAIN csA) # {}
  /\ mABB = mAB

\* The mutex a round is blocked on, if it is at a lock() call.
WaitsFor(r) ==
  CASE pc[r] \in {"scan_lock_graph", "sync_lock_graph", "missing_lock",
                  "commit_lock_graph"} -> {"graph"}
    [] pc[r] \in {"scan_lock_chain", "sync_lock_chain", "commit_lock_chain"} -> {"chain"}
    [] pc[r] = "db_lock" -> {"db"}
    [] OTHER -> {}

\* s is a prefix of t.
IsPrefix(s, t) == Len(s) <= Len(t) /\ \A i \in 1..Len(s) : s[i] = t[i]

\* C5: a commit section that applies the update the previous commit section
\* applied, with nothing in between, ends with an empty WalletChangeSet.
C5_RetryIsEmpty ==
  \A r \in Rounds :
    (pc[r] = "compose" /\ update[r] \in lastApplied)
      => WalletChangeSetIsEmpty(db_changeset[r])

\* C5 witness: an update with a block, a transaction and a last active index
\* has been applied a second time in a row.
C5_Witness ==
  \E r \in Rounds :
    /\ pc[r] = "compose" /\ update[r] \in lastApplied
    /\ update[r].chain.blocks # EmptyChain
    /\ update[r].graph # {}
    /\ update[r].last_active_indices # EmptyChangeSet
    /\ chain = update[r].chain.blocks
    /\ WalletChangeSetIsEmpty(db_changeset[r])

\* C6: a round that holds the chain and the graph guard took chain first,
\* and no two rounds each hold one of the two while waiting for the other.
C6_FixedLockOrder ==
  /\ \A r \in Rounds : \A i, j \in DOMAIN held[r] :
       (held[r][i] = "chain" /\ held[r][j] = "graph") => i < j
  /\ ~\E r, q \in Rounds :
        /\ r # q
        /\ WaitsFor(r) # {} /\ WaitsFor(r) \subseteq Range(held[q])
        /\ WaitsFor(q) # {} /\ WaitsFor(q) \subseteq Range(held[r])

\* C7: at most one round is inside the atomic phase.
C7_AtomicPhaseExclusive ==
  Cardinality({r \in Rounds : pc[r] \in AtomicPcs}) <= 1

\* C7 witness: a round is between the steps of the atomic phase while another
\* round is blocked at the entry of its commit section.
C7_Witness ==
  \E r, q \in Rounds :
    /\ r # q
    /\ pc[r] = "apply_graph" /\ applied[r] = <<"chain", "index">>
    /\ pc[q] = "commit_lock_chain"

\* C8: a round that waits for the chain source holds no guard.
C8_NoGuardDuringNetwork ==
  \A r \in Rounds : pc[r] \in NetworkPcs => held[r] = <<>>

\* C8 witness: a targeted sync waits for its query and another round waits
\* in finalize, both after having planned under the guards.
C8_Witness ==
  \E r, q \in Rounds :
    /\ pc[r] = "sync_query" /\ pc[q] = "finalize" /\ missing[q] # {}
    /\ held[r] = <<>> /\ held[q] = <<>>

\* C9: a round that ended with a failed query, a failed finalize, a rejected
\* chain update or by being given up has changed no store and nothing of db.
C9_FailedRoundNoEffect ==
  \A r \in Rounds : result[r] \in Failures => ~wrote[r]

\* C9 witness: a chain update was rejected while the stores were not empty,
\* after the other round failed in finalize.
C9_Witness ==
  \E r, q \in Rounds :
    /\ result[r] = "ReorgError" /\ result[q] = "FetchError"
    /\ ~wrote[r] /\ ~wrote[q]

\* C10: the commit steps of a round happen in the order chain update, index
\* reveal, graph update, stage, commit.
C10_CommitStepOrder ==
  \A r \in Rounds :
    IsPrefix(applied[r], <<"chain", "index", "graph", "stage", "commit">>)

\* C10 witness: a round made all five steps and changed the three stores.
C10_Witness ==
  \E r \in Rounds :
    /\ applied[r] = <<"chain", "index", "graph", "stage", "commit">>
    /\ result[r] = "Ok"
    /\ chain # EmptyChain /\ revealed # EmptyChangeSet /\ graph # {}

\* LocalChain::from_changeset and IndexedTxGraph::apply_changeset at startup:
\* the stores rebuilt from a loaded changeset.
Replay(cs) == [chain |-> cs.chain,
               revealed |-> cs.indexed_tx_graph.indexer,
               graph |-> cs.indexed_tx_graph.graph]

\* The changesets handed to db.stage by the rounds of log, appended in order.
RECURSIVE MergeOfWhole(_)
MergeOfWhole(log) ==
  IF log = <<>> THEN EmptyWalletChangeSet
  ELSE WalletChangeSetAppend(MergeOfWhole(SubSeq(log, 1, Len(log) - 1)),
                             handed[log[Len(log)]])

\* C11: when every round has committed, replaying the persisted changeset
\* rebuilds the in-memory chain, revealed indices and graph.
C11_Convergent ==
  (\A r \in Rounds : result[r] = "Ok") =>
     Replay(durable) = [chain |-> chain, revealed |-> revealed, graph |-> graph]

\* C12: db is locked across stage and commit, a round stages once, and what
\* is durable (and what is staged) is a merge of whole changesets of rounds:
\* the chain, graph and index changes of a round are persisted together.
C12_PersistedAsUnit ==
  /\ \A r \in Rounds : pc[r] \in {"stage", "db_commit"} => held[r] = <<"db">>
  /\ \A i, j \in DOMAIN persistLog : persistLog[i] = persistLog[j] => i = j
  /\ \A r \in Rounds : result[r] = "Ok" =>
       \E i \in 1..nDurable : persistLog[i] = r
  /\ durable = MergeOfWhole(SubSeq(persistLog, 1, nDurable))
  /\ staged = MergeOfWhole(SubSeq(persistLog, nDurable + 1, Len(persistLog)))

\* C12 witness: two rounds committed changesets that each hold a chain, a
\* graph and an index change.
C12_Witness ==
  /\ nDurable = 2
  /\ \A r \in Rounds :
       /\ result[r] = "Ok"
       /\ handed[r].chain # EmptyChain
       /\ handed[r].indexed_tx_graph.graph # {}
       /\ handed[r].indexed_tx_graph.indexer # EmptyChangeSet

\* C13: for all 16 combinations of the targeted-sync flags, once the
\* defaulting has run: with no flag set the effective selection is
\* unused-spks, utxos and unconfirmed with all-spks off; with all_spks set the
\* effective unused_spks is false and the other flags are the caller's; in
\* every other case the effective flags are the caller's flags.
C13_EffectiveFlags ==
  syncPc \notin {"lock_graph", "lock_chain", "flags"} =>
    LET f == syncFlags
        none == ~f.unused_spks /\ ~f.all_spks /\ ~f.utxos /\ ~f.unconfirmed
    IN /\ none => /\ syncEff.unused_spks /\ syncEff.utxos /\ syncEff.unconfirmed
                  /\ ~syncEff.all_spks
       /\ f.all_spks => /\ ~syncEff.unused_spks /\ syncEff.all_spks
                        /\ syncEff.utxos = f.utxos
                        /\ syncEff.unconfirmed = f.unconfirmed
       /\ (~none /\ ~f.all_spks) => syncEff = f

C13_Witness ==
  /\ syncPc = "done"
  /\ syncFlags = NoFlags
  /\ syncEff.unused_spks /\ syncEff.utxos /\ syncEff.unconfirmed

\* C19: in a targeted sync the streams handed to the chain source are those
\* the effective flags imply, read from the stores as they were while the
\* planning guards were held: every derived spk under all-spks, the unused
\* revealed spks under unused-spks, else none; the unspent outpoints under
\* utxos, else none; the unconfirmed canonical txids under unconfirmed, else
\* none; the tip is the tip of that same snapshot; the guards are held for
\* all of the planning and released before the query.
C19_QueriesFromSnapshot ==
  /\ syncPc \in {"flags", "spks", "outpoints", "txids", "tip"} =>
       syncHeld = <<"graph", "chain">> /\ wallet = syncSnap
  /\ syncPc \in {"query", "done"} =>
       /\ syncHeld = <<>>
       /\ spks = IF syncEff.all_spks THEN syncSnap.all_spks
                 ELSE IF syncEff.unused_spks THEN syncSnap.unused_spks ELSE {}
       /\ outpoints = IF syncEff.utxos THEN syncSnap.unspent ELSE {}
       /\ txids = IF syncEff.unconfirmed THEN syncSnap.unconfirmed ELSE {}
       /\ tip = syncSnap.tip

C19_Witness ==
  /\ syncPc = "done"
  /\ syncFlags.utxos /\ ~syncFlags.unconfirmed /\ syncFlags.unused_spks
  /\ outpoints # {} /\ spks # {} /\ txids = {} /\ tip # EmptyChain
  /\ wallet.unspent = {} /\ wallet.unconfirmed # {} /\ wallet.tip # tip

\* C14: WalletChangeSet::is_empty() is true if and only if the chain
\* changeset, the graph changeset and the keychain index changeset are all
\* three empty.
C14_EmptyIffAllEmpty ==
  wstep >= 1 =>
    (wAEmpty <=> /\ DOMAIN wA.chain = {}
                 /\ wA.indexed_tx_graph.graph = {}
                 /\ DOMAIN wA.indexed_tx_graph.indexer = {})

C14_Witness ==
  /\ wstep >= 1 /\ ~wAEmpty
  /\ DOMAIN wA.chain = {}
  /\ wA.indexed_tx_graph.graph = {}
  /\ DOMAIN wA.indexed_tx_graph.indexer # {}

\* C18: after self.append(other) the chain field is the chain merge of the
\* two chain fields (the other's block wins a height both have), the graph
\* field is the union of the two graph fields, the index field is the index
\* merge of the two index fields (the larger index per keychain), each from
\* its own field only; a WalletChangeSet converted from a chain changeset has
\* empty graph and index fields, one converted from a graph+index changeset
\* has an empty chain field.
C18_FieldWise ==
  /\ wstep >= 2 =>
       LET ga == wA.indexed_tx_graph  gb == wB.indexed_tx_graph
           r == wAB.indexed_tx_graph
       IN /\ DOMAIN wAB.chain = DOMAIN wA.chain \cup DOMAIN wB.chain
          /\ \A h \in DOMAIN wAB.chain :
               wAB.chain[h] = IF h \in DOMAIN wB.chain THEN wB.chain[h]
                              ELSE wA.chain[h]
          /\ r.graph = ga.graph \cup gb.graph
          /\ DOMAIN r.indexer = DOMAIN ga.indexer \cup DOMAIN gb.indexer
          /\ \A k \in DOMAIN r.indexer :
               r.indexer[k] =
                 SetMax({ga.indexer[j] : j \in {k} \cap DOMAIN ga.indexer}
                          \cup {gb.indexer[j] : j \in {k} \cap DOMAIN gb.indexer})
  /\ wstep >= 3 =>
       /\ wFromChain.chain = wA.chain
       /\ wFromChain.indexed_tx_graph.graph = {}
       /\ DOMAIN wFromChain.indexed_tx_graph.indexer = {}
  /\ wstep >= 4 =>
       /\ wFromIndexed.indexed_tx_graph = wA.indexed_tx_graph
       /\ DOMAIN wFromIndexed.chain = {}

C18_Witness ==
  /\ wstep = 4
  /\ \E h \in DOMAIN wA.chain \cap DOMAIN wB.chain :
       wA.chain[h] # wB.chain[h] /\ wAB.chain[h] = wB.chain[h]
  /\ wA.indexed_tx_graph.graph # {} /\ wB.indexed_tx_graph.graph # {}
  /\ wA.indexed_tx_graph.graph # wB.indexed_tx_graph.graph
  /\ \E k \in DOMAIN wA.indexed_tx_graph.indexer
                \cap DOMAIN wB.indexed_tx_graph.indexer :
       wA.indexed_tx_graph.indexer[k] > wB.indexed_tx_graph.indexer[k]

\* C15: for every Balance, total() returns the integer sum immature +
\* trusted_pending + untrusted_pending + confirmed and trusted_spendable()
\* returns the integer sum confirmed + trusted_pending.
C15_PlainSums ==
  /\ total # <<>> =>
       total[1] = Value(balance.immature + balance.trusted_pending
                          + balance.untrusted_pending + balance.confirmed)
  /\ trusted_spendable # <<>> =>
       trusted_spendable[1] = Value(balance.confirmed + balance.trusted_pending)

\* C16: the empty index changeset is an identity of append on both sides:
\* A.append(empty) leaves A as it was and empty.append(A) equals A.
C16_EmptyIsIdentity == mstep >= 1 => mAE = csA /\ mEA = csA

C16_Witness ==
  /\ mstep >= 1
  /\ DOMAIN csA = Keychains
  /\ \E k \in Keychains : csA[k] > 0
  /\ mAE = csA /\ mEA = csA

\* C17: index append is associative and commutative, and applying
\* A.append(B) to an index reveals the same as applying A then B and as
\* applying B then A.
C17_AssociativeCommutative ==
  /\ mstep >= 1 => mAB = mBA
  /\ mstep = 2 => /\ mABC = mA_BC
                  /\ iM = iAB
                  /\ iM = iBA

C17_Witness ==
  /\ mstep = 2
  /\ DOMAIN csA = Keychains /\ DOMAIN csB = Keychains
  /\ \E k \in Keychains : csA[k] > csB[k]
  /\ \E k \in Keychains : csB[k] > csA[k]
  /\ \E k \in DOMAIN csC : csC[k] > csA[k]
  /\ iM # csC /\ iA # iM /\ iB # iM

\* C20: a targeted-sync round carries an empty last_active_indices map into
\* the commit section and its changeset never has an index entry; its reveal
\* step changes no revealed index; a revealed index changes only in the reveal
\* step of a full-scan round; and no step removes or lowers a revealed index.
C20_SyncRevealsNothing ==
  [][/\ \A r \in Rounds :
          cmd[r] = "Sync" =>
            /\ update'[r].last_active_indices = EmptyChangeSet
            /\ db_changeset'[r].indexed_tx_graph.indexer = EmptyChangeSet
            /\ (pc[r] = "reveal" /\ pc'[r] # "reveal") => revealed' = revealed
     /\ revealed' # revealed =>
          \E r \in Rounds : /\ cmd[r] = "Scan"
                            /\ pc[r] = "reveal" /\ pc'[r] # "reveal"
     /\ \A k \in DOMAIN revealed :
          k \in DOMAIN revealed' /\ revealed'[k] >= revealed[k]
    ]_vars

C20_Witness ==
  \E r \in Rounds :
    /\ cmd[r] = "Sync"
    /\ pc[r] = "apply_graph"
    /\ "index" \in Range(applied[r])
    /\ update[r].graph # {}
    /\ revealed # EmptyChangeSet
    /\ db_changeset[r].indexed_tx_graph.indexer = EmptyChangeSet

\* The rounds that have not returned all wait for a mutex that another of
\* them holds.
AllBlocked ==
  LET running == {r \in Rounds : pc[r] # "done"}
  IN  /\ running # {}
      /\ \A r \in running :
           /\ WaitsFor(r) # {}
           /\ \E q \in running \ {r} : WaitsFor(r) \subseteq Range(held[q])

\* C21: with every thread going on whenever it can, every round returns
\* (Ok or an error); no reachable state has all running rounds blocked on
\* mutexes held by each other; a round that has returned holds no guard.
C21_EveryRoundReturns ==
  /\ [](~AllBlocked)
  /\ [](\A r \in Rounds : pc[r] = "done" => held[r] = <<>>)
  /\ \A r \in Rounds : <>(pc[r] = "done")

====
